---- MODULE Spec2Model ----
(***************************************************************************)
(* K8sHelper (sdk/python/kfp/compiler/_k8s_helper.py): run_job creates a   *)
(* pod, polls its phase every 5 seconds until the phase leaves             *)
(* {pending, running} or the elapsed seconds exceed the timeout, and       *)
(* deletes the pod.  The control plane (create / read / delete) is the     *)
(* environment: each call nondeterministically succeeds or raises          *)
(* ApiException, and a read returns any phase.                             *)
(*                                                                         *)
(* Time is in whole seconds, measured from the call of run_job.  Only      *)
(* time.sleep(5) and the create request take time.                         *)
(***************************************************************************)
EXTENDS Integers, Sequences, FiniteSets, TLC

\* ---------------------------------------------------------------- bounds
MaxRuns == 2            \* run_job invocations on one K8sHelper instance
MaxTimeout == 12        \* the small timeouts tried are 0..MaxTimeout
MaxHist == 4            \* how many status reads the history records
MaxCreateLatency == 1   \* seconds the create request may take
MaxClock == 86410       \* the clock stops the model here

\* ------------------------------------------------------ program constants
SleepSeconds == 5       \* time.sleep(5)
SecondsPerDay == 86400  \* timedelta.seconds is the seconds within a day
DefaultTimeout == 600   \* run_job(self, yaml_spec, timeout=600)
EmptyName == 0          \* the '' that _create_k8s_job returns on failure

\* Timeouts passed to run_job: small ones, the default, and (in SpecDay)
\* ones at the end of the range that timedelta.seconds can exceed.
Timeouts == (0..MaxTimeout) \cup {DefaultTimeout}
DayTimeouts == {SecondsPerDay - SleepSeconds - 1, SecondsPerDay - SleepSeconds, SecondsPerDay}

\* Phases as the control plane spells them (V1PodStatus.phase).
RawPhases == {"Pending", "Running", "Succeeded", "Failed", "Unknown", "running"}

\* str.lower() on the phases above.
Lower(p) ==
  CASE p = "Pending" -> "pending"
    [] p = "Running" -> "running"
    [] p = "Succeeded" -> "succeeded"
    [] p = "Failed" -> "failed"
    [] p = "Unknown" -> "unknown"
    [] OTHER -> p

\* timedelta.seconds of a non-negative difference of d whole seconds.
Seconds(d) == d % SecondsPerDay

\* The loop condition with every phase but succeeded and failed kept waiting.
Polling_NonTerminal(s) == s \notin {"succeeded", "failed"}

\* The loop condition as `while status != 'succeeded'`.
Polling_NotSucceeded(s) == s # "succeeded"

\* The loop condition of _wait_for_k8s_job.
Polling(s) == s \in {"pending", "running"}

VARIABLES
  pc,           \* position in run_job: "idle", "create", "poll", "delete"
  outcome,      \* how the last run_job ended: "none", "returned", "raised"
  result,       \* the boolean run_job returned
  timeout,      \* run_job's timeout argument
  pod_name,     \* run_job's pod_name
  succ,         \* run_job's succ
  status,       \* _wait_for_k8s_job's status
  now,          \* datetime.now(), seconds since run_job was called
  start_time,   \* _wait_for_k8s_job's start_time
  elapsed_time, \* _wait_for_k8s_job's elapsed_time
  runs,         \* run_job invocations so far
  live,         \* pods created and not yet passed to a delete request
  created,      \* this invocation: the create request succeeded
  createFailed, \* this invocation: the create request raised
  reads,        \* this invocation: status read requests made
  deletes,      \* this invocation: delete requests made
  deletedName,  \* this invocation: the name passed to the delete request
  deleteOutcome,\* this invocation: "none", "ok", "error"
  hist,         \* this invocation: the first MaxHist statuses read
  allRunning,   \* this invocation: every status read so far was running
  readError,    \* this invocation: a status read raised ApiException
  cause,        \* this invocation: why _wait_for_k8s_job ended
  logRequest,   \* since the last run_job: the last read_namespaced_pod_log,
                \* "none", "ok", "error"
  logReturn     \* since the last run_job: what the last _read_pod_log did,
                \* "none", "text", "False", "raised"

vars == <<pc, outcome, result, timeout, pod_name, succ, status, now,
          start_time, elapsed_time, runs, live, created, createFailed,
          reads, deletes, deletedName, deleteOutcome, hist, allRunning,
          readError, cause, logRequest, logReturn>>

log_vars == <<logRequest, logReturn>>

wait_vars == <<status, start_time, elapsed_time, reads, hist, allRunning,
               readError, cause>>
delete_vars == <<deletes, deletedName, deleteOutcome>>

TypeOK ==
  /\ pc \in {"idle", "create", "poll", "delete"}
  /\ outcome \in {"none", "returned", "raised"}
  /\ result \in BOOLEAN
  /\ timeout \in Nat
  /\ pod_name \in 0..MaxRuns
  /\ succ \in BOOLEAN
  /\ status \in {"pending", "running", "succeeded", "failed", "unknown"}
  /\ now \in 0..MaxClock
  /\ start_time \in 0..MaxCreateLatency
  /\ elapsed_time \in 0..(SecondsPerDay - 1)
  /\ runs \in 0..MaxRuns
  /\ live \subseteq 1..MaxRuns
  /\ created \in BOOLEAN
  /\ createFailed \in BOOLEAN
  /\ reads \in Nat
  /\ deletes \in 0..1
  /\ deletedName \in 0..MaxRuns
  /\ deleteOutcome \in {"none", "ok", "error"}
  /\ hist \in Seq({"pending", "running", "succeeded", "failed", "unknown"})
  /\ Len(hist) <= MaxHist
  /\ allRunning \in BOOLEAN
  /\ readError \in BOOLEAN
  /\ cause \in {"none", "timeout", "read_error", "no_phase", "terminal"}
  /\ logRequest \in {"none", "ok", "error"}
  /\ logReturn \in {"none", "text", "False", "raised"}

\* A fresh K8sHelper: no run_job call yet.
Init ==
  /\ pc = "idle"
  /\ outcome = "none"
  /\ result = FALSE
  /\ timeout = DefaultTimeout
  /\ pod_name = EmptyName
  /\ succ = FALSE
  /\ status = "running"
  /\ now = 0
  /\ start_time = 0
  /\ elapsed_time = 0
  /\ runs = 0
  /\ live = {}
  /\ created = FALSE
  /\ createFailed = FALSE
  /\ reads = 0
  /\ deletes = 0
  /\ deletedName = EmptyName
  /\ deleteOutcome = "none"
  /\ hist = <<>>
  /\ allRunning = TRUE
  /\ readError = FALSE
  /\ cause = "none"
  /\ logRequest = "none"
  /\ logReturn = "none"

\* `return v` from run_job.
Return(v) ==
  /\ pc' = "idle"
  /\ outcome' = "returned"
  /\ result' = v

\* An exception leaves run_job.
Raise ==
  /\ pc' = "idle"
  /\ outcome' = "raised"
  /\ result' = FALSE

\* The caller calls run_job(yaml_spec, t).
RunJob(t) ==
  /\ pc = "idle"
  /\ runs < MaxRuns
  /\ pc' = "create"
  /\ outcome' = "none"
  /\ result' = FALSE
  /\ timeout' = t
  /\ pod_name' = EmptyName
  /\ succ' = FALSE
  /\ status' = "running"
  /\ now' = 0
  /\ start_time' = 0
  /\ elapsed_time' = 0
  /\ runs' = runs + 1
  /\ created' = FALSE
  /\ createFailed' = FALSE
  /\ reads' = 0
  /\ deletes' = 0
  /\ deletedName' = EmptyName
  /\ deleteOutcome' = "none"
  /\ hist' = <<>>
  /\ allRunning' = TRUE
  /\ readError' = FALSE
  /\ cause' = "none"
  /\ logRequest' = "none"
  /\ logReturn' = "none"
  /\ UNCHANGED live

\* create_namespaced_pod answers after d seconds with a generated name;
\* run_job goes on into _wait_for_k8s_job, which sets status and start_time.
CreateOk(d) ==
  /\ pc = "create"
  /\ now' = now + d
  /\ pod_name' = runs
  /\ succ' = TRUE
  /\ created' = TRUE
  /\ live' = live \cup {runs}
  /\ status' = "running"
  /\ start_time' = now'
  /\ pc' = "poll"
  /\ UNCHANGED <<outcome, result, timeout, elapsed_time, runs, createFailed,
                 reads, hist, allRunning, readError, cause>>
  /\ UNCHANGED delete_vars
  /\ UNCHANGED log_vars

\* CreateFail without run_job's `if not succ: return False`: the failed
\* create is followed by the poll loop.
CreateFail_NoEarlyReturn(d) ==
  /\ pc = "create"
  /\ now' = now + d
  /\ pod_name' = EmptyName
  /\ succ' = FALSE
  /\ createFailed' = TRUE
  /\ pc' = "poll"
  /\ UNCHANGED <<outcome, result, timeout, runs, live, created>>
  /\ UNCHANGED wait_vars
  /\ UNCHANGED delete_vars
  /\ UNCHANGED log_vars

\* create_namespaced_pod raises ApiException after d seconds:
\* _create_k8s_job returns ('', False) and run_job returns False.
CreateFail(d) ==
  /\ pc = "create"
  /\ now' = now + d
  /\ pod_name' = EmptyName
  /\ succ' = FALSE
  /\ createFailed' = TRUE
  /\ Return(FALSE)
  /\ UNCHANGED <<timeout, runs, live, created>>
  /\ UNCHANGED wait_vars
  /\ UNCHANGED delete_vars
  /\ UNCHANGED log_vars

\* _wait_for_k8s_job returns v to run_job: on False run_job returns False,
\* on True it goes on to _delete_k8s_job.
WaitReturns(v) ==
  /\ succ' = v
  /\ IF v
       THEN /\ pc' = "delete"
            /\ UNCHANGED <<outcome, result>>
       ELSE Return(FALSE)

\* ReadOk with the timeout test written `elapsed_time >= timeout`.
ReadOk_TimeoutAtEqual(p) ==
  /\ pc = "poll"
  /\ Polling(status)
  /\ now + SleepSeconds <= MaxClock
  /\ status' = Lower(p)
  /\ reads' = reads + 1
  /\ hist' = IF Len(hist) < MaxHist THEN Append(hist, Lower(p)) ELSE hist
  /\ allRunning' = (allRunning /\ Lower(p) = "running")
  /\ now' = now + SleepSeconds
  /\ elapsed_time' = Seconds(now' - start_time)
  /\ IF elapsed_time' >= timeout
       THEN /\ cause' = "timeout"
            /\ WaitReturns(FALSE)
       ELSE /\ UNCHANGED <<pc, outcome, result, succ, cause>>
  /\ UNCHANGED <<timeout, pod_name, start_time, runs, live, created,
                 createFailed, readError>>
  /\ UNCHANGED delete_vars
  /\ UNCHANGED log_vars

\* One iteration of the loop whose read succeeds with phase p: lower the
\* phase, sleep, compute the elapsed seconds, compare with the timeout.
ReadOk(p) ==
  /\ pc = "poll"
  /\ Polling(status)
  /\ now + SleepSeconds <= MaxClock
  /\ status' = Lower(p)
  /\ reads' = reads + 1
  /\ hist' = IF Len(hist) < MaxHist THEN Append(hist, Lower(p)) ELSE hist
  /\ allRunning' = (allRunning /\ Lower(p) = "running")
  /\ now' = now + SleepSeconds
  /\ elapsed_time' = Seconds(now' - start_time)
  /\ IF elapsed_time' > timeout
       THEN /\ cause' = "timeout"
            /\ WaitReturns(FALSE)
       ELSE /\ UNCHANGED <<pc, outcome, result, succ, cause>>
  /\ UNCHANGED <<timeout, pod_name, start_time, runs, live, created,
                 createFailed, readError>>
  /\ UNCHANGED delete_vars
  /\ UNCHANGED log_vars

\* read_namespaced_pod raises ApiException: _wait_for_k8s_job returns False.
ReadError ==
  /\ pc = "poll"
  /\ Polling(status)
  /\ reads' = reads + 1
  /\ readError' = TRUE
  /\ cause' = "read_error"
  /\ WaitReturns(FALSE)
  /\ UNCHANGED <<timeout, pod_name, status, now, start_time, elapsed_time,
                 runs, live, created, createFailed, hist, allRunning>>
  /\ UNCHANGED delete_vars
  /\ UNCHANGED log_vars

\* The response carries no phase (None): None.lower() raises AttributeError,
\* which the except clause for ApiException does not catch.
ReadNoPhase ==
  /\ pc = "poll"
  /\ Polling(status)
  /\ reads' = reads + 1
  /\ cause' = "no_phase"
  /\ Raise
  /\ UNCHANGED <<timeout, pod_name, succ, status, now, start_time,
                 elapsed_time, runs, live, created, createFailed, hist,
                 allRunning, readError>>
  /\ UNCHANGED delete_vars
  /\ UNCHANGED log_vars

\* LoopExit with the result written `status != 'failed'`.
LoopExit_NotFailed ==
  /\ pc = "poll"
  /\ ~Polling(status)
  /\ cause' = "terminal"
  /\ WaitReturns(status # "failed")
  /\ UNCHANGED <<timeout, pod_name, status, now, start_time, elapsed_time,
                 runs, live, created, createFailed, reads, hist, allRunning,
                 readError>>
  /\ UNCHANGED delete_vars
  /\ UNCHANGED log_vars

\* The loop condition is false: return status == 'succeeded'.
LoopExit ==
  /\ pc = "poll"
  /\ ~Polling(status)
  /\ cause' = "terminal"
  /\ WaitReturns(status = "succeeded")
  /\ UNCHANGED <<timeout, pod_name, status, now, start_time, elapsed_time,
                 runs, live, created, createFailed, reads, hist, allRunning,
                 readError>>
  /\ UNCHANGED delete_vars
  /\ UNCHANGED log_vars

\* DeleteJob with the delete request made again after it raised.
DeleteJob_RetriesOnError(ok) ==
  /\ pc = "delete"
  /\ deletes' = deletes + 1
  /\ deletedName' = pod_name
  /\ deleteOutcome' = IF ok THEN "ok" ELSE "error"
  /\ live' = live \ {pod_name}
  /\ IF ok
       THEN Return(succ)
       ELSE UNCHANGED <<pc, outcome, result>>
  /\ UNCHANGED <<timeout, pod_name, succ, now, runs, created, createFailed>>
  /\ UNCHANGED wait_vars
  /\ UNCHANGED log_vars

\* DeleteJob with the delete request's failure reported to the caller:
\* run_job returns False when the request raised.
DeleteJob_ReportsFailure(ok) ==
  /\ pc = "delete"
  /\ deletes' = deletes + 1
  /\ deletedName' = pod_name
  /\ deleteOutcome' = IF ok THEN "ok" ELSE "error"
  /\ live' = live \ {pod_name}
  /\ Return(succ /\ ok)
  /\ UNCHANGED <<timeout, pod_name, succ, now, runs, created, createFailed>>
  /\ UNCHANGED wait_vars
  /\ UNCHANGED log_vars

\* _delete_k8s_job(pod_name): the request is made (ok = it succeeded,
\* otherwise ApiException is caught and logged); run_job returns succ.
DeleteJob(ok) ==
  /\ pc = "delete"
  /\ deletes' = deletes + 1
  /\ deletedName' = pod_name
  /\ deleteOutcome' = IF ok THEN "ok" ELSE "error"
  /\ live' = live \ {pod_name}
  /\ Return(succ)
  /\ UNCHANGED <<timeout, pod_name, succ, now, runs, created, createFailed>>
  /\ UNCHANGED wait_vars
  /\ UNCHANGED log_vars

\* ReadPodLog with the ApiException of the log request left uncaught.
ReadPodLog_Raises(ok) ==
  /\ pc = "idle"
  /\ logRequest' = IF ok THEN "ok" ELSE "error"
  /\ logReturn' = IF ok THEN "text" ELSE "raised"
  /\ UNCHANGED <<pc, outcome, result, timeout, pod_name, succ, now, runs,
                 live, created, createFailed>>
  /\ UNCHANGED wait_vars
  /\ UNCHANGED delete_vars

\* _read_pod_log(pod_name, yaml_spec), called between run_job invocations
\* (run_job itself does not call it: the call at line 111 is commented
\* out): the log text when the request succeeds, False when it raises
\* ApiException.
ReadPodLog(ok) ==
  /\ pc = "idle"
  /\ logRequest' = IF ok THEN "ok" ELSE "error"
  /\ logReturn' = IF ok THEN "text" ELSE "False"
  /\ UNCHANGED <<pc, outcome, result, timeout, pod_name, succ, now, runs,
                 live, created, createFailed>>
  /\ UNCHANGED wait_vars
  /\ UNCHANGED delete_vars

DeleteOk == DeleteJob(TRUE)

DeleteFail == DeleteJob(FALSE)

\* The steps of a run_job invocation after the call, with the create request
\* taking a time in D and the status reads answering with a phase in P.
Step(D, P) ==
  \/ \E d \in D : CreateOk(d)
  \/ \E d \in D : CreateFail(d)
  \/ \E p \in P : ReadOk(p)
  \/ ReadError
  \/ ReadNoPhase
  \/ LoopExit
  \/ DeleteOk
  \/ DeleteFail

Next ==
  \/ \E t \in Timeouts : RunJob(t)
  \/ Step(0..MaxCreateLatency, RawPhases)
  \/ \E ok \in BOOLEAN : ReadPodLog(ok)

Spec == Init /\ [][Next]_vars

\* One invocation with a timeout of about a day, of a pod that stays
\* running or succeeds, with an immediate create.
DayPhases == {"Running", "Succeeded"}

RunJobDay == \E t \in DayTimeouts : runs = 0 /\ RunJob(t)

NextDay ==
  \/ RunJobDay
  \/ Step({0}, DayPhases)

SpecDay == Init /\ [][NextDay]_vars

\* ------------------------------------------------------------------------
\* Properties of run_job
\* ------------------------------------------------------------------------

\* run_job has returned a boolean to its caller.
Returned == pc = "idle" /\ outcome = "returned"

\* Seconds spent in _wait_for_k8s_job so far.
LoopElapsed == now - start_time

\* C1: whenever create succeeded, exactly one delete request has been made
\* by the time run_job returns, whichever way the poll loop ended.
C1_DeleteOnEveryPath ==
  (Returned /\ created) => deletes = 1

\* C2: if create fails, run_job has returned False at once, and neither a
\* delete request nor a status read is made in that invocation.
C2_CreateFailure ==
  createFailed =>
    /\ Returned
    /\ result = FALSE
    /\ deletes = 0
    /\ reads = 0
    /\ runs \notin live

C2_Witness ==
  /\ createFailed
  /\ Returned
  /\ runs = 2

\* C3: if create succeeds and the first status read returns succeeded,
\* run_job returns True and exactly one delete request is made.
C3_DirectSuccess ==
  (pc = "idle" /\ created /\ Len(hist) >= 1 /\ hist[1] = "succeeded") =>
    /\ outcome = "returned"
    /\ result = TRUE
    /\ deletes = 1

\* C4: if create succeeds and a status read returns failed, run_job returns
\* False and exactly one delete request is made.
C4_FailedPhase ==
  (pc = "idle" /\ created /\ status = "failed") =>
    /\ outcome = "returned"
    /\ result = FALSE
    /\ deletes = 1

\* C5: if create succeeds and every status read returns running until the
\* elapsed time exceeds the timeout, run_job returns False and exactly one
\* delete request is made.
C5_TimeoutWhileRunning ==
  (pc = "idle" /\ created /\ allRunning /\ cause = "timeout") =>
    /\ outcome = "returned"
    /\ result = FALSE
    /\ deletes = 1

\* C6: once a status read raised a control-plane error, no further status
\* read is made, run_job returns False, and the delete request is still made.
C6_ReadErrorCleansUp ==
  readError =>
    /\ Returned
    /\ result = FALSE
    /\ cause = "read_error"
    /\ deletes = 1

\* C7: whether the delete request succeeds or raises, run_job returns (it
\* does not raise) and returns what the poll loop reported.
C7_DeleteOutcomeIgnored ==
  deleteOutcome # "none" =>
    /\ Returned
    /\ result = succ
    /\ result = (status = "succeeded")

C7_Witness ==
  /\ deleteOutcome = "error"
  /\ Returned
  /\ result = TRUE

\* C8: after a status read returned a phase outside {pending, running}, the
\* result of _wait_for_k8s_job is True exactly when that phase is succeeded.
C8_ResultIffSucceeded ==
  ((Returned \/ pc = "delete") /\ created /\ ~Polling(status)) =>
    (succ <=> status = "succeeded")

\* C9: while every status read returns running, run_job is still polling
\* only while the time in the loop has not passed the timeout, and when it
\* returns for the timeout it returns False at a time in the loop of at
\* least timeout and at most timeout + 5 seconds.
C9_TimeoutBound ==
  /\ (pc = "poll" /\ allRunning) => LoopElapsed <= timeout
  /\ (Returned /\ allRunning /\ cause = "timeout") =>
       /\ result = FALSE
       /\ LoopElapsed >= timeout
       /\ LoopElapsed <= timeout + SleepSeconds

\* C10: when the status reads return pending, running, running, succeeded
\* and the timeout is not reached, run_job returns True after 3 poll
\* intervals in the loop.
C10_ThreeIntervals ==
  (Returned /\ cause = "terminal" /\ reads = 4
     /\ hist = <<"pending", "running", "running", "succeeded">>) =>
    /\ result = TRUE
    /\ LoopElapsed = 3 * SleepSeconds

\* The four phases the loop names or compares with.
NamedPhases == {"pending", "running", "succeeded", "failed"}

\* C11 as stated: a phase other than pending, running, succeeded and failed
\* keeps the runner polling, so the loop never ends (with its outcome
\* decided) on such a phase.
C11_OtherPhaseWaits ==
  (created /\ status \notin NamedPhases) => ~(Returned /\ cause = "terminal")

\* C11 amended: a phase other than pending, running, succeeded and failed
\* ends the loop: at the loop head no further status read is made, and
\* run_job returns False.
C11_OtherPhaseEndsLoop ==
  [][(pc = "poll" /\ status \notin NamedPhases) =>
       (reads' = reads /\ pc' = "idle" /\ outcome' = "returned"
          /\ result' = FALSE)]_vars

C11_Witness ==
  /\ Returned
  /\ status = "unknown"
  /\ cause = "terminal"
  /\ result = FALSE

\* C12: no error of a control-plane operation, a status read without a
\* phase included, leaves run_job as an exception: every invocation that has
\* ended has returned a boolean.
C12_NothingPropagates ==
  (pc = "idle" /\ runs > 0) => outcome = "returned"

\* C13: at any time at most one pod of this K8sHelper is created and not
\* yet passed to a delete request.
C13_AtMostOneLive ==
  Cardinality(live) <= 1

\* C14: a status read is made only while the phase last read (or the
\* initial status, before any read) is pending or running; once a read has
\* returned another phase, no further status read is made in the invocation.
C14_ReadOnlyWhilePolling ==
  [][reads' > reads => (pc = "poll" /\ status \in {"pending", "running"})]_vars

C14_Witness ==
  /\ Returned
  /\ cause = "terminal"
  /\ status = "failed"
  /\ reads = 2

\* Every status read of the invocation so far succeeded with phase pending
\* or running.
OnlyPendingOrRunning ==
  /\ created
  /\ ~readError
  /\ cause # "no_phase"
  /\ status \in {"pending", "running"}

\* C15: while every status read so far succeeded with pending or running
\* and the time in the loop has not exceeded the timeout, run_job has not
\* returned, one interval has passed per read, and its next step is another
\* status read.
C15_NoEarlyEnd ==
  /\ []((OnlyPendingOrRunning /\ LoopElapsed <= timeout) =>
         (pc = "poll" /\ LoopElapsed = reads * SleepSeconds))
  /\ [][(OnlyPendingOrRunning /\ LoopElapsed <= timeout) =>
          reads' = reads + 1]_vars

C15_Witness ==
  /\ pc = "poll"
  /\ reads = 2
  /\ status = "pending"
  /\ timeout = 2 * SleepSeconds
  /\ LoopElapsed = timeout

\* C16: the elapsed time compared with the timeout is the wall-clock time
\* since the create call (time 0 of the invocation), and the loop aborts
\* exactly when that time exceeds the timeout.
C16_ElapsedSinceSubmission ==
  (created /\ reads > 0 /\ cause \in {"none", "timeout"}) =>
    /\ elapsed_time = now
    /\ (cause = "timeout" <=> now > timeout)

\* C17: when the log request raises a control-plane error, _read_pod_log
\* returns False instead of raising, and no log retrieval, successful or
\* not, changes what run_job returned (or makes run_job return).
C17_LogErrorIsAbsence ==
  /\ [](logRequest = "error" => logReturn = "False")
  /\ [](logRequest = "ok" => logReturn = "text")
  /\ [][(logRequest' # logRequest /\ logRequest' # "none") =>
          (pc = "idle" /\ UNCHANGED <<pc, outcome, result, succ, live>>)]_vars

C17_Witness ==
  /\ logRequest = "error"
  /\ logReturn = "False"
  /\ Returned
  /\ result = TRUE

\* C18: run_job returns True only if create succeeded, at least one status
\* read was made, no read failed, and the last status read returned
\* succeeded.
C18_TrueOnlyAfterSucceeded ==
  (Returned /\ result = TRUE) =>
    /\ created
    /\ reads >= 1
    /\ ~readError
    /\ status = "succeeded"
    /\ cause = "terminal"

C18_Witness ==
  /\ Returned
  /\ result = TRUE
  /\ reads = 3
  /\ deleteOutcome = "ok"

\* C19: in one invocation the control-plane calls are ordered create, status
\* reads, at most one delete: a status read is made only after create
\* succeeded and before any delete; delete is made at most once, after a
\* successful create, with the name create returned, and is followed by
\* run_job's return.
C19_CallOrder ==
  /\ [](/\ reads > 0 => created
        /\ deletes <= 1
        /\ deletes = 1 =>
             /\ created
             /\ reads > 0
             /\ deletedName = pod_name
             /\ deletedName = runs
             /\ pc = "idle")
  /\ [][reads' > reads => (created /\ deletes = 0)]_vars
  /\ [][deletes' > deletes => (created /\ pod_name' = runs)]_vars

C19_Witness ==
  /\ deletes = 1
  /\ deletedName = 2
  /\ reads = 2
  /\ Returned

\* C20: _wait_for_k8s_job makes at most floor(timeout / 5) + 1 status
\* reads, and with them run_job has left the loop.
C20_ReadsBounded ==
  /\ reads <= (timeout \div SleepSeconds) + 1
  /\ (created /\ reads = (timeout \div SleepSeconds) + 1) => pc # "poll"

====
